---- MODULE Spec2Model ----
(***************************************************************************)
(* Model of the Gemini service layer (services/geminiService.ts).          *)
(*                                                                         *)
(* The repository holds three near-duplicate versions of the module:       *)
(*   "A"  src/src/services/geminiService.ts, lines 1-417                   *)
(*   "B"  src/src/services/geminiService.ts, lines 419-826                 *)
(*   "C"  src/unnamed/part_000                                             *)
(* A process runs exactly one of them; `variant' records which one.        *)
(*                                                                         *)
(* Strings that the code inspects (response texts, user code) are          *)
(* sequences of characters/tokens; strings the code only copies are TLA+   *)
(* strings.  JavaScript values are tagged records (field t is the type).   *)
(***************************************************************************)
EXTENDS Integers, Sequences, FiniteSets, TLC

(***************************************************************************)
(* Bounds of the model.                                                    *)
(***************************************************************************)
MaxTurns == 2
MaxTextLen == 3
MaxCodeLen == 1

(***************************************************************************)
(* JavaScript values.                                                      *)
(***************************************************************************)
JUndef == [t |-> "undefined"]
JNull == [t |-> "null"]
JBool(b) == [t |-> "bool", b |-> b]
JNum(n) == [t |-> "num", n |-> n]
JStr(s) == [t |-> "str", s |-> s]
JText(cs) == [t |-> "text", cs |-> cs]
JArr(a) == [t |-> "arr", a |-> a]
JObj(f) == [t |-> "obj", f |-> f]
JErr(e) == [t |-> "error", e |-> e]

NoFields == [k \in {} |-> JUndef]

\* ToBoolean: undefined, null, false, 0 and "" are falsy.
Truthy(v) ==
  CASE v.t = "undefined" -> FALSE
    [] v.t = "null" -> FALSE
    [] v.t = "bool" -> v.b
    [] v.t = "num" -> v.n # "0"
    [] v.t = "str" -> v.s # ""
    [] v.t = "text" -> v.cs # <<>>
    [] OTHER -> TRUE

\* a ?? b
Nullish(v) == v.t \in {"undefined", "null"}
Coalesce(a, b) == IF Nullish(a) THEN b ELSE a
\* a || b
OrElse(a, b) == IF Truthy(a) THEN a ELSE b

\* v.k for a value that is not null/undefined (reading a property of null
\* or undefined throws a TypeError; the callers test Nullish first).
Get(v, k) == IF v.t = "obj" /\ k \in DOMAIN v.f THEN v.f[k] ELSE JUndef

(***************************************************************************)
(* Characters and String.prototype helpers.                                *)
(***************************************************************************)
WS == {" ", "\n"}

RECURSIVE TrimStart(_)
TrimStart(cs) ==
  IF cs # <<>> /\ Head(cs) \in WS THEN TrimStart(Tail(cs)) ELSE cs

RECURSIVE TrimEnd(_)
TrimEnd(cs) ==
  IF cs # <<>> /\ cs[Len(cs)] \in WS
  THEN TrimEnd(SubSeq(cs, 1, Len(cs) - 1)) ELSE cs

Trim(cs) == TrimEnd(TrimStart(cs))

(***************************************************************************)
(* JSON.parse over token sequences.  Punctuation, the literals null, true  *)
(* and false, numbers and string literals are one token each; any other    *)
(* token is a syntax error.                                                *)
(***************************************************************************)
NumLits == {"0", "5"}
StrLits == {"title", "description", "exampleInput", "exampleOutput",
            "isCorrect", "simulatedOutput", "feedback",
            "projects", "jobs", "prompts", "suggestions",
            "skills", "difficulty", "company", "location", "type",
            "s1", "s2", "Beginner", "Remote"}

ParseFail == [ok |-> FALSE, v |-> JUndef, rest |-> <<>>]
ParseOk(v, rest) == [ok |-> TRUE, v |-> v, rest |-> rest]

RECURSIVE ParseValue(_), ParseElements(_, _), ParseMembers(_, _)
ParseValue(ts0) ==
  LET ts == TrimStart(ts0) IN
  IF ts = <<>> THEN ParseFail
  ELSE LET h == Head(ts)
           r == Tail(ts)
           u == TrimStart(r)
       IN CASE h = "null" -> ParseOk(JNull, r)
            [] h = "true" -> ParseOk(JBool(TRUE), r)
            [] h = "false" -> ParseOk(JBool(FALSE), r)
            [] h \in NumLits -> ParseOk(JNum(h), r)
            [] h \in StrLits -> ParseOk(JStr(h), r)
            [] h = "[" -> IF u # <<>> /\ Head(u) = "]"
                          THEN ParseOk(JArr(<<>>), Tail(u))
                          ELSE ParseElements(r, <<>>)
            [] h = "{" -> IF u # <<>> /\ Head(u) = "}"
                          THEN ParseOk(JObj(NoFields), Tail(u))
                          ELSE ParseMembers(r, NoFields)
            [] OTHER -> ParseFail

ParseElements(ts, acc) ==
  LET e == ParseValue(ts)
      u == TrimStart(e.rest)
  IN IF ~e.ok \/ u = <<>> THEN ParseFail
     ELSE IF Head(u) = "," THEN ParseElements(Tail(u), Append(acc, e.v))
     ELSE IF Head(u) = "]" THEN ParseOk(JArr(Append(acc, e.v)), Tail(u))
     ELSE ParseFail

ParseMembers(ts, acc) ==
  LET k == TrimStart(ts)
      c == IF k = <<>> THEN <<>> ELSE TrimStart(Tail(k))
      e == ParseValue(Tail(c))
      u == TrimStart(e.rest)
      f == [x \in DOMAIN acc \cup {Head(k)} |->
              IF x = Head(k) THEN e.v ELSE acc[x]]
  IN IF k = <<>> \/ Head(k) \notin StrLits THEN ParseFail
     ELSE IF c = <<>> \/ Head(c) # ":" THEN ParseFail
     ELSE IF ~e.ok \/ u = <<>> THEN ParseFail
     ELSE IF Head(u) = "," THEN ParseMembers(Tail(u), f)
     ELSE IF Head(u) = "}" THEN ParseOk(JObj(f), Tail(u))
     ELSE ParseFail

\* JSON.parse(text): the value, or ok = FALSE for a SyntaxError.
JSONParse(ts) ==
  LET p == ParseValue(ts)
  IN IF p.ok /\ TrimStart(p.rest) = <<>>
     THEN [ok |-> TRUE, v |-> p.v]
     ELSE [ok |-> FALSE, v |-> JUndef]

(***************************************************************************)
(* Inputs.                                                                 *)
(***************************************************************************)
RECURSIVE SeqsUpTo(_, _)
SeqsUpTo(S, n) ==
  IF n = 0 THEN {<<>>}
  ELSE LET shorter == SeqsUpTo(S, n - 1)
       IN shorter \cup {Append(q, x) : q \in {r \in shorter : Len(r) = n - 1}, x \in S}

Variants == {"A", "B", "C"}
Languages == {"Python", "C++"}
Prompts == {"hello"}
SystemInstructions == {"be a tutor"}
TransportErrors == {"NetworkError", "QuotaError"}

Image(mimeType, data) == [mimeType |-> mimeType, data |-> data]
Images == {Image("image/png", "iVBOR")}
\* image?: { mimeType, data } of the chat calls
\* (owner: who allocated the object; the caller's objects are "caller")
ImageArgs ==
  {JUndef} \cup {[t |-> "image", mimeType |-> i.mimeType, data |-> i.data,
                  owner |-> "caller"] : i \in Images}

\* One fragment of a Message: optional text, optional image.inlineData.
Part(text, image) == [text |-> text, image |-> image]
Msg(role, parts) == [role |-> role, parts |-> parts]
Png == [t |-> "image", inlineData |-> Image("image/png", "iVBOR"),
        owner |-> "caller"]

\* The turns histories are made of: text only, text and image in one part,
\* image only, empty text, no parts at all, and two parts.
Messages ==
  { Msg("user", <<Part(JStr("hi"), JUndef)>>),
    Msg("model", <<Part(JStr("hi"), Png)>>),
    Msg("user", <<Part(JUndef, Png)>>),
    Msg("model", <<Part(JStr(""), JUndef)>>),
    Msg("user", <<>>),
    Msg("model", <<Part(JUndef, Png), Part(JStr("ok"), JUndef)>>) }
Histories == SeqsUpTo(Messages, MaxTurns)

Chars == {"a", " "}
Texts == SeqsUpTo(Chars, MaxTextLen)
CodeChars == {"x", "y"}
Codes == SeqsUpTo(CodeChars, MaxCodeLen)
Cursors == (0 - MaxCodeLen - 1) .. (MaxCodeLen + 1)

(***************************************************************************)
(* Response texts of the JSON calls, as token sequences.                   *)
(***************************************************************************)
Member(k, v) == <<k, ":">> \o v
Braces(ms) == <<"{">> \o ms \o <<"}">>
Obj1(k, v) == Braces(Member(k, v))

ChallengeJson ==
  Braces(Member("title", <<"s1">>) \o <<",">> \o
         Member("description", <<"s2">>) \o <<",">> \o
         Member("exampleInput", <<"5">>) \o <<",">> \o
         Member("exampleOutput", <<"s1">>))
PartialChallengeJson ==
  Braces(Member("title", <<"s1">>) \o <<",">> \o
         Member("description", <<"s2">>))
EvaluationJson ==
  Braces(Member("isCorrect", <<"true">>) \o <<",">> \o
         Member("simulatedOutput", <<"s1">>) \o <<",">> \o
         Member("feedback", <<"s2">>))
PartialEvaluationJson ==
  Braces(Member("isCorrect", <<"true">>))
ProjectJson ==
  Braces(Member("title", <<"s1">>) \o <<",">> \o
         Member("description", <<"s2">>) \o <<",">> \o
         Member("skills", <<"[", "s1", "]">>) \o <<",">> \o
         Member("difficulty", <<"Beginner">>))
JobJson ==
  Braces(Member("title", <<"s1">>) \o <<",">> \o
         Member("company", <<"s2">>) \o <<",">> \o
         Member("location", <<"s1">>) \o <<",">> \o
         Member("type", <<"Remote">>) \o <<",">> \o
         Member("description", <<"s2">>))

CommonJsonTexts ==
  { <<>>, <<" ">>, <<"oops">>, <<"null">>, <<"5">>, <<"[", "]">>,
    <<"{", "}">>, <<" ", "{", "}", "\n">>, <<"{", "title", ":">>,
    <<"{", "}", "oops">> }

ListJsonTexts(field, item) ==
  { Obj1(field, <<"null">>), Obj1(field, <<"[", "]">>),
    Obj1(field, <<"0">>), Obj1(field, <<"5">>),
    Obj1(field, <<"[", "s1", ",", "s2", "]">>),
    Obj1(field, <<"[">> \o item \o <<"]">>),
    Obj1(field, <<"[", "{", "}", "]">>),
    <<"\n">> \o Obj1(field, <<"[">> \o item \o <<",">> \o item \o <<"]">>) }

(***************************************************************************)
(* What one generateContent request can come back with: it throws, or it   *)
(* resolves with a response whose text is absent or a string.              *)
(***************************************************************************)
Thrown(e) == [kind |-> "throw", err |-> e, hasText |-> FALSE, text |-> <<>>]
NoText == [kind |-> "ok", err |-> "", hasText |-> FALSE, text |-> <<>>]
WithText(cs) == [kind |-> "ok", err |-> "", hasText |-> TRUE, text |-> cs]
NoOutcome == [kind |-> "none", err |-> "", hasText |-> FALSE, text |-> <<>>]

Failures == {Thrown(e) : e \in TransportErrors}
Answers(texts) == {NoText} \cup {WithText(cs) : cs \in texts}

(***************************************************************************)
(* Prompt Builder: the request payloads.                                   *)
(***************************************************************************)
TextPart(v) == [text |-> v]
\* The caller's object put into the request as it is (no copy).
InlinePartAlias(d) ==
  [inlineData |-> Image(d.mimeType, d.data), owner |-> d.owner]

\* { inlineData: { ...d } } and { inlineData: { mimeType, data } }: a new
\* object, allocated for the request, with the same two properties.
InlinePart(d) ==
  [inlineData |-> Image(d.mimeType, d.data), owner |-> "request"]

\* part.image?.inlineData
InlineDataOf(part) ==
  IF Nullish(part.image) THEN JUndef
  ELSE [t |-> "inlineData", mimeType |-> part.image.inlineData.mimeType,
        data |-> part.image.inlineData.data, owner |-> part.image.owner]

\* The flatMap callback of buildContents (and of both getChatResponse).
ApiParts(part) ==
  (IF Truthy(part.text) THEN <<TextPart(part.text)>> ELSE <<>>) \o
  (IF Truthy(InlineDataOf(part)) THEN <<InlinePart(InlineDataOf(part))>> ELSE <<>>)

RECURSIVE FlatMapApiParts(_)
\* msg.parts.flatMap(part => ...)
FlatMapApiParts(parts) ==
  IF parts = <<>> THEN <<>>
  ELSE ApiParts(Head(parts)) \o FlatMapApiParts(Tail(parts))

buildContents(history) ==
  [i \in 1..Len(history) |->
     [role |-> history[i].role, parts |-> FlatMapApiParts(history[i].parts)]]

\* history.map(msg => ({role, parts: msg.parts.map(part => ({text: part.text}))}))
TextOnlyParts(parts) == [j \in 1..Len(parts) |-> TextPart(parts[j].text)]
TextOnlyContents(history) ==
  [i \in 1..Len(history) |->
     [role |-> history[i].role, parts |-> TextOnlyParts(history[i].parts)]]

\* The history-derived request turns of findProjects.
findProjectsHistory(v, history) ==
  IF v = "A" THEN buildContents(history) ELSE TextOnlyContents(history)

getModelName(thinking) ==
  IF thinking THEN "gemini-2.5-pro" ELSE "gemini-2.5-flash"

ThinkingBudget == 32768

ChatConfig(systemInstruction, thinking) ==
  IF thinking
  THEN [systemInstruction |-> systemInstruction, thinkingBudget |-> ThinkingBudget]
  ELSE [systemInstruction |-> systemInstruction]

\* A template literal: its name and the values interpolated into it.
Template(name, values) == JObj([template |-> JStr(name)] @@ values)

UserTurn(parts) == [role |-> "user", parts |-> parts]

getChatResponseStreamRequest(a) ==
  [model |-> getModelName(a.isThinkingMode),
   contents |-> buildContents(a.history) \o
     <<UserTurn(<<TextPart(JStr(a.prompt))>> \o
                (IF Truthy(a.image) THEN <<InlinePart(a.image)>> ELSE <<>>))>>,
   config |-> ChatConfig(a.systemInstruction, a.isThinkingMode)]

getChatResponseRequest(a) ==
  [model |-> getModelName(a.isThinkingMode),
   contents |-> buildContents(a.history),
   config |-> ChatConfig(a.systemInstruction, a.isThinkingMode)]

findProjectsRequest(v, a) ==
  [model |-> "gemini-2.5-flash",
   contents |-> findProjectsHistory(v, a.history) \o
     <<UserTurn(<<TextPart(Template("findProjects", [language |-> JStr(a.language)]))>>)>>,
   config |-> IF v = "A"
              THEN [systemInstruction |-> a.systemInstruction]
              ELSE [systemInstruction |-> a.systemInstruction,
                    responseMimeType |-> "application/json",
                    responseSchema |-> "projects"]]

\* Variant A wraps the prompt in one user turn; variant B passes the bare
\* prompt with a response schema.
PromptRequest(v, name, values) ==
  IF v = "A"
  THEN [model |-> "gemini-2.5-flash",
        contents |-> <<UserTurn(<<TextPart(Template(name, values))>>)>>]
  ELSE [model |-> "gemini-2.5-flash",
        contents |-> Template(name, values),
        config |-> [responseMimeType |-> "application/json",
                    responseSchema |-> name]]

(***************************************************************************)
(* Response Decoder.                                                       *)
(***************************************************************************)
Return(v) == [kind |-> "return", v |-> v]
Throw(e) == [kind |-> "throw", v |-> JErr(e)]
NoResult == [kind |-> "none", v |-> JUndef]

Record(f) == JObj([k \in DOMAIN f |-> JStr(f[k])])

FallbackChallenge(v) ==
  IF v = "A"
  THEN Record([title |-> "Challenge unavailable",
               description |-> "I couldn't generate a new challenge right now. Please try again in a moment!",
               exampleInput |-> "",
               exampleOutput |-> ""])
  ELSE Record([title |-> "The Case of the Missing Semicolon",
               description |-> "Oh no! It seems I couldn't fetch a challenge. My internal code must be on a coffee break. Try refreshing to wake it up!",
               exampleInput |-> "N/A",
               exampleOutput |-> "N/A"])

FallbackEvaluation(v) ==
  IF v = "A"
  THEN JObj([isCorrect |-> JBool(FALSE),
             simulatedOutput |-> JStr("An internal error occurred while evaluating the code."),
             feedback |-> JStr("I wasn't able to check your code this time. Please try again in a moment!")])
  ELSE JObj([isCorrect |-> JBool(FALSE),
             simulatedOutput |-> JStr("Error: My crystal ball is cloudy..."),
             feedback |-> JStr("I seem to have run into a little snag trying to evaluate your code. Could you try submitting it again? Let's give it another go!")])

EmptyList == JArr(<<>>)
\* (the source text starts with a warning-sign emoji, left out here)
StreamFallback == JStr("Sorry, I ran into a problem talking to Gemini. Please check your API key and try again.")
RunCodeFallback == JStr("An internal error occurred while trying to run the code.")
NoOutput == JStr("[No output]")

\* The try-block from the awaited response to JSON.parse: the parsed value,
\* or ok = FALSE when the await, the text access or JSON.parse throws.
\*   A: JSON.parse((response.text ?? dflt).toString())
\*   B: JSON.parse(response.text.trim())
\*   C: JSON.parse((text ?? '').toString().trim())
ParseResponse(v, o, dflt) ==
  IF o.kind = "throw" THEN [ok |-> FALSE, v |-> JUndef]
  ELSE CASE v = "A" -> JSONParse(IF o.hasText THEN o.text ELSE dflt)
         [] v = "B" -> IF o.hasText THEN JSONParse(Trim(o.text))
                       ELSE [ok |-> FALSE, v |-> JUndef]
         [] v = "C" -> JSONParse(Trim(IF o.hasText THEN o.text ELSE <<>>))

\* The same without the try/catch: the failure reaches the caller.
RecordResultUncaught(p, fallback) ==
  IF p.ok THEN Return(p.v) ELSE Throw("uncaught")

\* return JSON.parse(json) as T, inside try; catch returns the fallback.
RecordResult(p, fallback) ==
  IF p.ok THEN Return(p.v) ELSE Return(fallback)

\* The same with the "?? []" / "|| []" default forgotten.
ListResultNoDefault(v, p, field) ==
  IF ~p.ok \/ Nullish(p.v) THEN Return(EmptyList)
  ELSE Return(Get(p.v, field))

\* The same with JSON.parse outside the try block.
ListResultUncaught(v, p, field) ==
  IF ~p.ok THEN Throw("SyntaxError")
  ELSE IF Nullish(p.v) THEN Return(EmptyList)
  ELSE IF v = "B" THEN Return(OrElse(Get(p.v, field), EmptyList))
  ELSE Return(Coalesce(Get(p.v, field), EmptyList))

\* return parsed.field ?? [] (A, C) or data.field || [] (B), inside try;
\* reading a property of null throws a TypeError; catch returns [].
ListResult(v, p, field) ==
  IF ~p.ok \/ Nullish(p.v) THEN Return(EmptyList)
  ELSE IF v = "B" THEN Return(OrElse(Get(p.v, field), EmptyList))
  ELSE Return(Coalesce(Get(p.v, field), EmptyList))

getCodingChallenge(v, o) ==
  RecordResult(ParseResponse(v, o, <<"{", "}">>), FallbackChallenge(v))

evaluateCodeSolution(v, o) ==
  RecordResult(ParseResponse(v, o, <<"{", "}">>), FallbackEvaluation(v))

findProjects(v, o) ==
  ListResult(v, ParseResponse(v, o, <<"{", "}">>), "projects")

parseJobListings(v, o) ==
  ListResult(v, ParseResponse(v, o, <<"{", "}">>), "jobs")

scanForInputRequirements(v, o) ==
  ListResult(v, ParseResponse(v, o, Obj1("prompts", <<"[", "]">>)), "prompts")

getCodeCompletions(v, o) ==
  ListResult(v, ParseResponse(v, o, Obj1("suggestions", <<"[", "]">>)), "suggestions")

\* A catch block that returns an apology instead of rethrowing.
getChatResponseSwallow(v, o) ==
  IF o.kind = "throw" THEN Return(JStr("Sorry, something went wrong."))
  ELSE IF v = "B" THEN Return(IF o.hasText THEN JText(o.text) ELSE JUndef)
  ELSE Return(JText(IF o.hasText THEN o.text ELSE <<>>))

\* B: return response.text;  C: return (text ?? '').toString();
\* catch logs and rethrows the error.
getChatResponse(v, o) ==
  IF o.kind = "throw" THEN Throw(o.err)
  ELSE IF v = "B" THEN Return(IF o.hasText THEN JText(o.text) ELSE JUndef)
  ELSE Return(JText(IF o.hasText THEN o.text ELSE <<>>))

\* runCode without the `|| "[No output]"` default.
runCodeNoDefault(v, o) ==
  IF o.kind = "throw" THEN Return(RunCodeFallback)
  ELSE Return(JText(Trim(IF o.hasText THEN o.text ELSE <<>>)))

runCode(v, o) ==
  IF o.kind = "throw" THEN Return(RunCodeFallback)
  ELSE Return(OrElse(JText(Trim(IF o.hasText THEN o.text ELSE <<>>)), NoOutput))

(***************************************************************************)
(* Streaming chat: fullText.split(/(\s+)/), empty pieces skipped.          *)
(***************************************************************************)
RECURSIVE Run(_, _)
\* Longest prefix of cs whose characters are all whitespace (ws = TRUE) or
\* all non-whitespace (ws = FALSE).
Run(cs, ws) ==
  IF cs # <<>> /\ ((Head(cs) \in WS) = ws)
  THEN <<Head(cs)>> \o Run(Tail(cs), ws) ELSE <<>>

Drop(cs, n) == SubSeq(cs, n + 1, Len(cs))

RECURSIVE SplitPlain(_)
\* split(/\s+/), without the capturing group: the separators are dropped.
SplitPlain(cs) ==
  LET word == Run(cs, FALSE)
      rest == Drop(cs, Len(word))
      gap == Run(rest, TRUE)
  IN IF rest = <<>> THEN <<word>>
     ELSE <<word>> \o SplitPlain(Drop(rest, Len(gap)))

RECURSIVE SplitCapture(_)
\* String.prototype.split with the capturing separator /(\s+)/: the pieces
\* between separators (possibly empty) alternate with the separators.
SplitCapture(cs) ==
  LET word == Run(cs, FALSE)
      rest == Drop(cs, Len(word))
      gap == Run(rest, TRUE)
  IN IF rest = <<>> THEN <<word>>
     ELSE <<word, gap>> \o SplitCapture(Drop(rest, Len(gap)))

\* The chunks the generator yields after the await, in order.
getChatResponseStream(o) ==
  IF o.kind = "throw" THEN <<StreamFallback>>
  ELSE LET fullText == IF o.hasText THEN o.text ELSE <<>>
           chunks == SplitCapture(fullText)
           kept == SelectSeq(chunks, LAMBDA chunk : chunk # <<>>)
       IN [i \in 1..Len(kept) |-> JText(kept[i])]

\* A catch block that rethrows after yielding the fallback.
StreamCompletionRethrow(o) ==
  IF o.kind = "throw" THEN Throw(o.err) ELSE Return(JUndef)

\* How the generator ends once its chunks are consumed: the try block and
\* the catch block both fall off the end of the function.
StreamCompletion(o) == Return(JUndef)

(***************************************************************************)
(* The process: module load, then calls of the exported functions.         *)
(***************************************************************************)
VARIABLES
  variant,   \* which version of the module the process runs
  hasKey,    \* whether the build injected a credential
  phase,     \* "unloaded", "loaded", or "loadFailed" (module load threw)
  clients,   \* number of GoogleGenAI clients constructed so far
  pc,        \* "idle", "awaiting", "yielding", "done"
  fn,        \* the exported function being executed, or "none"
  args,      \* its arguments
  sent,      \* generateContent requests issued by this invocation
  outcome,   \* what the request came back with
  result,    \* how the invocation ended
  pending,   \* chunks the stream generator has still to yield
  yielded    \* chunks the consumer received, in order

vars == <<variant, hasKey, phase, clients, pc, fn, args, sent, outcome,
          result, pending, yielded>>

NoArgs == [none |-> TRUE]

Exports(v) ==
  CASE v = "A" -> {"getChatResponseStream", "findProjects", "getCodingChallenge",
                   "evaluateCodeSolution", "scanForInputRequirements",
                   "runCode", "getCodeCompletions", "getJobSearchLinks"}
    [] v = "B" -> {"getChatResponse", "findProjects", "parseJobListings",
                   "getCodingChallenge", "evaluateCodeSolution",
                   "scanForInputRequirements", "getJobSearchLinks"}
    [] v = "C" -> {"getChatResponse", "findProjects"}

Init ==
  /\ variant \in Variants
  /\ hasKey \in BOOLEAN
  /\ phase = "unloaded"
  /\ clients = 0
  /\ pc = "idle"
  /\ fn = "none"
  /\ args = NoArgs
  /\ sent = <<>>
  /\ outcome = NoOutcome
  /\ result = NoResult
  /\ pending = <<>>
  /\ yielded = <<>>

\* Top-level statements of the module: variant A only warns about a missing
\* key and constructs the client; B and C throw before constructing it.
LoadThrows(v, key) == v # "A" /\ ~key

LoadModule ==
  /\ phase = "unloaded"
  /\ IF LoadThrows(variant, hasKey)
     THEN phase' = "loadFailed" /\ clients' = clients
     ELSE phase' = "loaded" /\ clients' = clients + 1
  /\ UNCHANGED <<variant, hasKey, pc, fn, args, sent, outcome, result,
                 pending, yielded>>

\* The request issued twice.
IssueRequestTwice(log, request) == Append(Append(log, request), request)

\* await ai.models.generateContent(request)
IssueRequest(log, request) == Append(log, request)

\* A call runs synchronously up to its await: the request is built and sent.
Begin(f, a, request) ==
  /\ phase = "loaded"
  /\ pc = "idle"
  /\ f \in Exports(variant)
  /\ fn' = f
  /\ args' = a
  /\ sent' = IssueRequest(sent, request)
  /\ pc' = "awaiting"
  /\ UNCHANGED <<variant, hasKey, phase, clients, outcome, result, pending,
                 yielded>>

\* Without a credential every request fails.
Outcomes(texts) == IF hasKey THEN Failures \cup Answers(texts) ELSE Failures

\* The await settles and the rest of the function body runs.
Finish(f, o, r) ==
  /\ pc = "awaiting"
  /\ fn = f
  /\ outcome' = o
  /\ result' = r
  /\ pc' = "done"
  /\ UNCHANGED <<variant, hasKey, phase, clients, fn, args, sent, pending,
                 yielded>>

ChatArgs ==
  [prompt : Prompts, history : Histories,
   systemInstruction : SystemInstructions, image : ImageArgs,
   isThinkingMode : BOOLEAN]

CallGetChatResponseStream ==
  \E a \in ChatArgs :
    Begin("getChatResponseStream", a, getChatResponseStreamRequest(a))

\* The response arrives: the generator computes its chunks (or, in the
\* catch block, the fallback chunk) and starts yielding.
ResumeGetChatResponseStream ==
  /\ pc = "awaiting"
  /\ fn = "getChatResponseStream"
  /\ \E o \in Outcomes(Texts) :
       /\ outcome' = o
       /\ pending' = getChatResponseStream(o)
  /\ pc' = "yielding"
  /\ UNCHANGED <<variant, hasKey, phase, clients, fn, args, sent, result,
                 yielded>>

YieldChunk ==
  /\ pc = "yielding"
  /\ pending # <<>>
  /\ yielded' = Append(yielded, Head(pending))
  /\ pending' = Tail(pending)
  /\ UNCHANGED <<variant, hasKey, phase, clients, pc, fn, args, sent,
                 outcome, result>>

StreamReturn ==
  /\ pc = "yielding"
  /\ pending = <<>>
  /\ result' = StreamCompletion(outcome)
  /\ pc' = "done"
  /\ UNCHANGED <<variant, hasKey, phase, clients, fn, args, sent, outcome,
                 pending, yielded>>

\* The consumer stops iterating at a chunk boundary (generator.return()).
CancelStream ==
  /\ pc = "yielding"
  /\ pending # <<>>
  /\ yielded # <<>>
  /\ pending' = <<>>
  /\ result' = [kind |-> "cancelled", v |-> JUndef]
  /\ pc' = "done"
  /\ UNCHANGED <<variant, hasKey, phase, clients, fn, args, sent, outcome,
                 yielded>>

CallGetChatResponse ==
  \E a \in ChatArgs :
    Begin("getChatResponse", a, getChatResponseRequest(a))

\* getChatResponse hands the text over without looking into it.
ReplyTexts == {<<>>, <<"a">>, <<" ", "a", " ">>}

SettleGetChatResponse ==
  \E o \in Outcomes(ReplyTexts) :
    Finish("getChatResponse", o, getChatResponse(variant, o))

ProjectArgs ==
  [history : Histories, systemInstruction : SystemInstructions,
   language : Languages]

CallFindProjects ==
  \E a \in ProjectArgs :
    Begin("findProjects", a, findProjectsRequest(variant, a))

SettleFindProjects ==
  \E o \in Outcomes(CommonJsonTexts \cup ListJsonTexts("projects", ProjectJson)) :
    Finish("findProjects", o, findProjects(variant, o))

CallParseJobListings ==
  \E a \in [pastedText : Codes, language : Languages] :
    Begin("parseJobListings", a,
          PromptRequest(variant, "parseJobListings",
            [language |-> JStr(a.language), pastedText |-> JText(a.pastedText)]))

SettleParseJobListings ==
  \E o \in Outcomes(CommonJsonTexts \cup ListJsonTexts("jobs", JobJson)) :
    Finish("parseJobListings", o, parseJobListings(variant, o))

CallGetCodingChallenge ==
  \E a \in [language : Languages] :
    Begin("getCodingChallenge", a,
          PromptRequest(variant, "getCodingChallenge",
            [language |-> JStr(a.language)]))

SettleGetCodingChallenge ==
  \E o \in Outcomes(CommonJsonTexts \cup {ChallengeJson, PartialChallengeJson}) :
    Finish("getCodingChallenge", o, getCodingChallenge(variant, o))

Challenges == {FallbackChallenge("A"), JSONParse(ChallengeJson).v}

CallEvaluateCodeSolution ==
  \E a \in [challenge : Challenges, userCode : Codes, language : Languages] :
    Begin("evaluateCodeSolution", a,
          PromptRequest(variant, "evaluateCodeSolution",
            [language |-> JStr(a.language),
             title |-> Get(a.challenge, "title"),
             description |-> Get(a.challenge, "description"),
             userCode |-> JText(a.userCode)]))

SettleEvaluateCodeSolution ==
  \E o \in Outcomes(CommonJsonTexts \cup {EvaluationJson, PartialEvaluationJson}) :
    Finish("evaluateCodeSolution", o, evaluateCodeSolution(variant, o))

CallScanForInputRequirements ==
  \E a \in [userCode : Codes, language : Languages] :
    Begin("scanForInputRequirements", a,
          PromptRequest(variant, "scanForInputRequirements",
            [language |-> JStr(a.language), userCode |-> JText(a.userCode)]))

SettleScanForInputRequirements ==
  \E o \in Outcomes(CommonJsonTexts \cup ListJsonTexts("prompts", <<"s1">>)) :
    Finish("scanForInputRequirements", o, scanForInputRequirements(variant, o))

CallRunCode ==
  \E a \in [userCode : Codes, language : Languages, userInput : Codes] :
    Begin("runCode", a,
          PromptRequest(variant, "runCode",
            [language |-> JStr(a.language), userCode |-> JText(a.userCode),
             userInput |-> JText(a.userInput)]))

SettleRunCode ==
  \E o \in Outcomes(Texts) :
    Finish("runCode", o, runCode(variant, o))

\* String.prototype.slice(start, end) on a character sequence.
SliceIndex(i, len) ==
  IF i < 0 THEN (IF len + i < 0 THEN 0 ELSE len + i)
  ELSE (IF i > len THEN len ELSE i)

Slice(cs, start, end) ==
  LET from == SliceIndex(start, Len(cs))
      to == SliceIndex(end, Len(cs))
  IN SubSeq(cs, from + 1, to)

CursorMarker == <<"[CURSOR]">>

\* The second slice taken one character too far.
codeWithCursorSkip(userCode, cursorPosition) ==
  Slice(userCode, 0, cursorPosition) \o CursorMarker \o
  Slice(userCode, cursorPosition + 1, Len(userCode))

codeWithCursor(userCode, cursorPosition) ==
  Slice(userCode, 0, cursorPosition) \o CursorMarker \o
  Slice(userCode, cursorPosition, Len(userCode))

CallGetCodeCompletions ==
  \E a \in [userCode : Codes, language : Languages, cursorPosition : Cursors] :
    Begin("getCodeCompletions", a,
          PromptRequest(variant, "getCodeCompletions",
            [language |-> JStr(a.language),
             codeWithCursor |-> JText(codeWithCursor(a.userCode, a.cursorPosition))]))

SettleGetCodeCompletions ==
  \E o \in Outcomes(CommonJsonTexts \cup ListJsonTexts("suggestions", <<"s2">>)) :
    Finish("getCodeCompletions", o, getCodeCompletions(variant, o))

(***************************************************************************)
(* Job-search link table.                                                  *)
(***************************************************************************)
\* The characters of a Language name.
LanguageChars(l) ==
  CASE l = "Python" -> <<"P", "y", "t", "h", "o", "n">>
    [] l = "C++" -> <<"C", "+", "+">>

UpperCase == <<"A", "B", "C", "D", "E", "F", "G", "H", "I", "J", "K", "L", "M",
               "N", "O", "P", "Q", "R", "S", "T", "U", "V", "W", "X", "Y", "Z">>
LowerCase == <<"a", "b", "c", "d", "e", "f", "g", "h", "i", "j", "k", "l", "m",
               "n", "o", "p", "q", "r", "s", "t", "u", "v", "w", "x", "y", "z">>
Digits == {"0", "1", "2", "3", "4", "5", "6", "7", "8", "9"}
Range(f) == {f[i] : i \in DOMAIN f}

\* String.prototype.toLowerCase
ToLowerCase(cs) ==
  [i \in 1..Len(cs) |->
     IF cs[i] \in Range(UpperCase)
     THEN LowerCase[CHOOSE k \in DOMAIN UpperCase : UpperCase[k] = cs[i]]
     ELSE cs[i]]

\* The characters encodeURIComponent leaves as they are.
Unreserved ==
  Range(UpperCase) \cup Range(LowerCase) \cup Digits \cup
  {"-", "_", ".", "!", "~", "*", "'", "(", ")"}
\* The further characters encodeURI leaves as they are.
ReservedKept == {";", "/", "?", ":", "@", "&", "=", "+", "$", ",", "#"}

\* %XX of the UTF-8 byte of an ASCII character.
PercentEncoded(c) ==
  CASE c = "+" -> <<"%", "2", "B">>
    [] c = "#" -> <<"%", "2", "3">>
    [] c = " " -> <<"%", "2", "0">>
    [] c = "/" -> <<"%", "2", "F">>
    [] c = "&" -> <<"%", "2", "6">>
    [] OTHER -> <<"%", "X", "X">>

RECURSIVE encodeURI(_)
\* encodeURI in place of encodeURIComponent: "+" and "#" are not escaped.
encodeURI(cs) ==
  IF cs = <<>> THEN <<>>
  ELSE (IF Head(cs) \in Unreserved \cup ReservedKept THEN <<Head(cs)>>
        ELSE PercentEncoded(Head(cs))) \o encodeURI(Tail(cs))

RECURSIVE encodeURIComponent(_)
encodeURIComponent(cs) ==
  IF cs = <<>> THEN <<>>
  ELSE (IF Head(cs) \in Unreserved THEN <<Head(cs)>>
        ELSE PercentEncoded(Head(cs))) \o encodeURIComponent(Tail(cs))

\* `${before}${encoded}${after}`: the fixed pieces are one token each.
Url(before, encoded, after) ==
  <<before>> \o encoded \o (IF after = "" THEN <<>> ELSE <<after>>)
Link(name, url) == [name |-> name, url |-> url]

\* Variant A: an object of three categories, in insertion order.
LinkTable(encoded) ==
  [t |-> "table",
   groups |-> <<
     [category |-> "Global Job Platforms",
      links |-> <<
        Link("LinkedIn Jobs", Url("https://www.linkedin.com/jobs/search/?keywords=", encoded, "%20Developer")),
        Link("Indeed", Url("https://www.indeed.com/jobs?q=", encoded, "+Developer")),
        Link("Glassdoor", Url("https://www.glassdoor.com/Job/jobs.htm?sc.keyword=", encoded, "%20Developer")),
        Link("Google Jobs", Url("https://www.google.com/search?q=", encoded, "+developer+jobs")) >>],
     [category |-> "Remote-First Platforms",
      links |-> <<
        Link("RemoteOK", Url("https://remoteok.com/remote-", encoded, "-jobs")),
        Link("We Work Remotely", Url("https://weworkremotely.com/remote-jobs/search?term=", encoded, "")),
        Link("Remotive", Url("https://remotive.com/remote-jobs/search?search=", encoded, "")),
        Link("Working Nomads", Url("https://www.workingnomads.com/jobs?category=", ToLowerCase(encoded), "")) >>],
     [category |-> "Tech-Specific Boards",
      links |-> <<
        Link("Dice", Url("https://www.dice.com/jobs?q=", encoded, "")),
        Link("Wellfound (AngelList Talent)", Url("https://wellfound.com/role/", ToLowerCase(encoded), "-developer")),
        Link("Stack Overflow Jobs (archive)", Url("https://stackoverflow.com/jobs?q=", encoded, "")) >>] >>]

\* Variant B: a flat array of six links.
LinkList(encoded) ==
  [t |-> "list",
   links |-> <<
     Link("LinkedIn Jobs", Url("https://www.linkedin.com/jobs/search/?keywords=", encoded, "%20Developer")),
     Link("Indeed", Url("https://www.indeed.com/jobs?q=", encoded, "+Developer")),
     Link("RemoteOK", Url("https://remoteok.com/remote-", encoded, "-jobs")),
     Link("We Work Remotely", Url("https://weworkremotely.com/remote-jobs/search?term=", encoded, "")),
     Link("Dice", Url("https://www.dice.com/jobs?q=", encoded, "")),
     Link("SimplyHired", Url("https://www.simplyhired.com/search?q=", encoded, "+Developer")) >>]

getJobSearchLinks(v, language) ==
  LET encoded == encodeURIComponent(LanguageChars(language))
  IN Return(IF v = "A" THEN LinkTable(encoded) ELSE LinkList(encoded))

\* A synchronous call: it returns at once and issues no request.  The caller
\* may call again while it still holds the previous table.
CallGetJobSearchLinks ==
  /\ phase = "loaded"
  /\ pc = "idle" \/ (pc = "done" /\ fn = "getJobSearchLinks")
  /\ "getJobSearchLinks" \in Exports(variant)
  /\ \E a \in [language : Languages] :
       /\ args' = a
       /\ result' = getJobSearchLinks(variant, a.language)
  /\ fn' = "getJobSearchLinks"
  /\ pc' = "done"
  /\ UNCHANGED <<variant, hasKey, phase, clients, sent, outcome, pending,
                 yielded>>

\* The caller has consumed the result; the layer keeps nothing of the call.
Consume ==
  /\ pc = "done"
  /\ pc' = "idle"
  /\ fn' = "none"
  /\ args' = NoArgs
  /\ sent' = <<>>
  /\ outcome' = NoOutcome
  /\ result' = NoResult
  /\ pending' = <<>>
  /\ yielded' = <<>>
  /\ UNCHANGED <<variant, hasKey, phase, clients>>

Next ==
  \/ LoadModule
  \/ CallGetChatResponseStream
  \/ ResumeGetChatResponseStream
  \/ YieldChunk
  \/ StreamReturn
  \/ CancelStream
  \/ CallGetChatResponse
  \/ SettleGetChatResponse
  \/ CallFindProjects
  \/ SettleFindProjects
  \/ CallParseJobListings
  \/ SettleParseJobListings
  \/ CallGetCodingChallenge
  \/ SettleGetCodingChallenge
  \/ CallEvaluateCodeSolution
  \/ SettleEvaluateCodeSolution
  \/ CallScanForInputRequirements
  \/ SettleScanForInputRequirements
  \/ CallRunCode
  \/ SettleRunCode
  \/ CallGetCodeCompletions
  \/ SettleGetCodeCompletions
  \/ CallGetJobSearchLinks
  \/ Consume

Spec == Init /\ [][Next]_vars

(***************************************************************************)
(* Properties.                                                             *)
(***************************************************************************)
RECURSIVE ConcatChunks(_)
ConcatChunks(chunks) ==
  IF chunks = <<>> THEN <<>>
  ELSE Head(chunks).cs \o ConcatChunks(Tail(chunks))

StreamDone(kind) ==
  /\ fn = "getChatResponseStream"
  /\ pc = "done"
  /\ outcome.kind = kind

\* C1: the chunks yielded by getChatResponseStream, concatenated in yield
\* order, equal the response text exactly (an absent text counts as the empty
\* text), and no yielded chunk is the empty string.
C1_StreamRoundTrip ==
  fn = "getChatResponseStream" =>
    /\ \A i \in DOMAIN yielded : Truthy(yielded[i])
    /\ (StreamDone("ok") /\ result.kind = "return") =>
         ConcatChunks(yielded) = outcome.text

C1_Witness ==
  /\ StreamDone("ok")
  /\ result.kind = "return"
  /\ outcome.text = <<"a", " ", "a">>
  /\ Len(yielded) = 3

\* C2: when the model call of getChatResponseStream throws, the generator
\* yields exactly one chunk, the fixed fallback text, and then completes
\* normally: the error does not reach the consumer.
C2_StreamFallbackOnThrow ==
  (fn = "getChatResponseStream" /\ outcome.kind = "throw") =>
    /\ yielded \o pending = <<StreamFallback>>
    /\ pc = "done" => (yielded = <<StreamFallback>> /\ result = Return(JUndef))

C2_Witness ==
  /\ StreamDone("throw")
  /\ yielded = <<StreamFallback>>
  /\ result.kind = "return"

RecordCalls == {"getCodingChallenge", "evaluateCodeSolution"}
ListCalls == {"findProjects", "parseJobListings", "scanForInputRequirements",
              "getCodeCompletions"}
StructuredCalls == RecordCalls \cup ListCalls

\* The "required" lists of the response schemas.
RequiredFields(f) ==
  CASE f = "getCodingChallenge" ->
         {"title", "description", "exampleInput", "exampleOutput"}
    [] f = "evaluateCodeSolution" -> {"isCorrect", "simulatedOutput", "feedback"}
    [] f = "findProjects" -> {"title", "description", "skills", "difficulty"}
    [] f = "parseJobListings" ->
         {"title", "company", "location", "type", "description"}
    [] OTHER -> {}

HasRequired(v, fields) == v.t = "obj" /\ fields \subseteq DOMAIN v.f

\* C3: a record returned by a structured call holds every field its schema
\* declares required (for the list calls: every record of the returned
\* list); a response that omits one yields the fallback instead.
C3_RequiredFieldsPresent ==
  (pc = "done" /\ result.kind = "return") =>
    /\ fn \in RecordCalls => HasRequired(result.v, RequiredFields(fn))
    /\ (fn \in {"findProjects", "parseJobListings"} /\ result.v.t = "arr") =>
         \A i \in DOMAIN result.v.a :
           HasRequired(result.v.a[i], RequiredFields(fn))

\* C4: when the model call throws, getCodingChallenge and
\* evaluateCodeSolution return exactly their fixed fallback records (the
\* evaluation with isCorrect = false), and scanForInputRequirements and
\* getCodeCompletions return an empty sequence.
C4_FallbackOnTransportFailure ==
  (pc = "done" /\ outcome.kind = "throw") =>
    /\ fn = "getCodingChallenge" => result = Return(FallbackChallenge(variant))
    /\ fn = "evaluateCodeSolution" =>
         /\ result = Return(FallbackEvaluation(variant))
         /\ Get(result.v, "isCorrect") = JBool(FALSE)
    /\ fn \in {"scanForInputRequirements", "getCodeCompletions"} =>
         result = Return(JArr(<<>>))

C4_Witness ==
  /\ pc = "done"
  /\ outcome.kind = "throw"
  /\ fn = "evaluateCodeSolution"
  /\ hasKey
  /\ Get(result.v, "isCorrect") = JBool(FALSE)

ListField(f) ==
  CASE f = "findProjects" -> "projects"
    [] f = "parseJobListings" -> "jobs"
    [] f = "scanForInputRequirements" -> "prompts"
    [] f = "getCodeCompletions" -> "suggestions"
    [] OTHER -> "none"

\* The outcomes C5 lists: the call threw, the response has no text, the text
\* is not JSON, it is JSON null, or it is an object whose list field is
\* missing, null or a list.
ListedOutcome(o, field) ==
  LET p == JSONParse(o.text)
  IN \/ o.kind = "throw"
     \/ ~o.hasText
     \/ ~p.ok
     \/ p.v.t = "null"
     \/ /\ p.v.t = "obj"
        /\ field \in DOMAIN p.v.f => p.v.f[field].t \in {"null", "arr"}

\* C5: every list-returning call returns a sequence, never null or absent,
\* whatever the listed outcome of the model call.
C5_ListCallsReturnSequence ==
  (pc = "done" /\ fn \in ListCalls /\ ListedOutcome(outcome, ListField(fn))) =>
    /\ result.kind = "return"
    /\ result.v.t = "arr"

C5_Witness ==
  /\ pc = "done"
  /\ fn = "findProjects"
  /\ outcome = WithText(Obj1("projects", <<"null">>))
  /\ result = Return(JArr(<<>>))

FallbackOf(f, v) ==
  CASE f = "getCodingChallenge" -> FallbackChallenge(v)
    [] f = "evaluateCodeSolution" -> FallbackEvaluation(v)
    [] OTHER -> JArr(<<>>)

\* The value decoded from the response text (for a list call, its list field).
DecodedFrom(f, text) ==
  LET p == JSONParse(text)
  IN IF f \in RecordCalls THEN p.v ELSE Get(p.v, ListField(f))

\* C6: a structured JSON call ends in one of two ways: it resolves with a
\* value decoded from the response (from the default document "{}" when
\* variant A gets no text) or with the fixed fallback; text that is not valid
\* JSON gives the fallback; nothing is thrown to the caller.
C6_TwoOutcomesNeverThrows ==
  (pc = "done" /\ fn \in StructuredCalls) =>
    /\ result.kind = "return"
    /\ \/ result.v = FallbackOf(fn, variant)
       \/ /\ outcome.hasText
          /\ JSONParse(outcome.text).ok
          /\ result.v = DecodedFrom(fn, outcome.text)
       \/ /\ outcome.kind = "ok"
          /\ ~outcome.hasText
          /\ variant = "A"
          /\ result.v = DecodedFrom(fn, <<"{", "}">>)
    /\ (outcome.hasText /\ ~JSONParse(outcome.text).ok) =>
         result.v = FallbackOf(fn, variant)

C6_Witness ==
  /\ pc = "done"
  /\ fn = "parseJobListings"
  /\ outcome = WithText(<<"{", "title", ":">>)
  /\ result = Return(JArr(<<>>))

\* C7: getChatResponse is the only call that lets a failure through: when
\* the model call throws it rethrows that same error, and no other call
\* ever ends by throwing.
C7_OnlyChatRethrows ==
  pc = "done" =>
    /\ result.kind = "throw" <=> (fn = "getChatResponse" /\ outcome.kind = "throw")
    /\ result.kind = "throw" => result.v = JErr(outcome.err)

C7_Witness ==
  /\ pc = "done"
  /\ fn = "getChatResponse"
  /\ outcome = Thrown("QuotaError")
  /\ result = [kind |-> "throw", v |-> JErr("QuotaError")]

\* C8: the client is constructed lazily and at most once: loading the
\* module constructs nothing and raises nothing, even without a credential.
C8_LazyClient ==
  [][phase = "unloaded" => (phase' # "loadFailed" /\ clients' = 0)]_vars

\* C9: every invocation of a model-calling function issues exactly one
\* generateContent request, whatever the request comes back with.
C9_OneRequestPerInvocation ==
  /\ pc = "idle" => sent = <<>>
  /\ (pc \in {"awaiting", "yielding", "done"} /\ fn # "getJobSearchLinks")
       => Len(sent) = 1

C9_Witness ==
  /\ pc = "done"
  /\ outcome.kind = "throw"
  /\ fn = "findProjects"
  /\ Len(sent) = 1

HistoryCalls == {"getChatResponseStream", "getChatResponse", "findProjects"}

NonEmptyTexts(msg) ==
  Cardinality({j \in DOMAIN msg.parts :
                 msg.parts[j].text.t = "str" /\ msg.parts[j].text.s # ""})
SuppliedImages(msg) ==
  Cardinality({j \in DOMAIN msg.parts : msg.parts[j].image.t = "image"})
TextPartsOf(turn) ==
  Cardinality({j \in DOMAIN turn.parts : "text" \in DOMAIN turn.parts[j]})
ImagePartsOf(turn) ==
  Cardinality({j \in DOMAIN turn.parts : "inlineData" \in DOMAIN turn.parts[j]})

\* C10: in every call that forwards history, the N turns of the history are
\* the first N request turns, in order and with their roles, and each holds
\* one text part per non-empty text and one image part per image of the turn.
C10_HistoryMapping ==
  (pc = "awaiting" /\ fn \in HistoryCalls) =>
    LET h == args.history
        turns == sent[1].contents
    IN /\ Len(turns) \in {Len(h), Len(h) + 1}
       /\ \A i \in DOMAIN h :
            /\ turns[i].role = h[i].role
            /\ TextPartsOf(turns[i]) = NonEmptyTexts(h[i])
            /\ ImagePartsOf(turns[i]) = SuppliedImages(h[i])

ChatCalls == {"getChatResponseStream", "getChatResponse"}

\* The request the chat call f builds from the arguments a.
ChatRequest(f, a) ==
  IF f = "getChatResponseStream" THEN getChatResponseStreamRequest(a)
  ELSE getChatResponseRequest(a)

IsImagePart(p) == "inlineData" \in DOMAIN p

\* C11: in both chat calls, the payload with an image is the payload built
\* for the same prompt and history without one, plus exactly one part in the
\* current (last) user turn carrying the image's MIME type and data; without
\* an image the current turn holds no image part.
C11_ImageIsOneExtraPart ==
  (pc = "awaiting" /\ fn \in ChatCalls) =>
    LET req == sent[1]
        base == ChatRequest(fn, [args EXCEPT !.image = JUndef])
        n == Len(req.contents)
        h == Len(args.history)
    IN IF Truthy(args.image)
       THEN /\ req.model = base.model
            /\ req.config = base.config
            /\ n = Len(base.contents)
            /\ n = h + 1
            /\ \A i \in 1..h : req.contents[i] = base.contents[i]
            /\ req.contents[n].role = base.contents[n].role
            /\ Len(req.contents[n].parts) = Len(base.contents[n].parts) + 1
            /\ \A j \in DOMAIN base.contents[n].parts :
                 req.contents[n].parts[j] = base.contents[n].parts[j]
            /\ LET added == req.contents[n].parts[Len(req.contents[n].parts)]
               IN /\ IsImagePart(added)
                  /\ added.inlineData =
                       Image(args.image.mimeType, args.image.data)
       ELSE \A i \in (h + 1)..n :
              \A j \in DOMAIN req.contents[i].parts :
                ~IsImagePart(req.contents[i].parts[j])

\* The image parts of all turns of a request.
ImagePartsIn(req) ==
  {p \in UNION {{req.contents[i].parts[j] : j \in DOMAIN req.contents[i].parts} :
                  i \in DOMAIN req.contents} : IsImagePart(p)}

CallerImages(a) ==
  UNION {{a.history[i].parts[j].image : j \in DOMAIN a.history[i].parts} :
           i \in DOMAIN a.history}

\* No image object of a request built from a history is the caller's object.
NoSharedImage ==
  (pc # "idle" /\ fn \in HistoryCalls) =>
    \A p \in ImagePartsIn(sent[1]) : p.owner # "caller"

\* C12: no call changes the history it was given: from the call to its end
\* the caller's messages, their roles, parts, texts and image data stay as
\* they were, and the image data in the request is a copy, not the caller's
\* object.
C12_HistoryNotMutated ==
  /\ []NoSharedImage
  /\ [][(pc # "idle" /\ pc' # "idle" /\ fn \in HistoryCalls) => args' = args]_vars

C12_Witness ==
  /\ pc = "done"
  /\ fn = "getChatResponse"
  /\ outcome.kind = "throw"
  /\ Png \in CallerImages(args)
  /\ \E p \in ImagePartsIn(sent[1]) :
       p.inlineData = Png.inlineData /\ p.owner = "request"

(***************************************************************************)
(* C13: the job-search link table.                                         *)
(***************************************************************************)
\* The URL-encoded form of each Language, written out by hand.
ExpectedEncoded(l) ==
  CASE l = "Python" -> <<"P", "y", "t", "h", "o", "n">>
    [] l = "C++" -> <<"C", "%", "2", "B", "%", "2", "B">>
\* The same, lower-cased.
ExpectedLowered(l) ==
  CASE l = "Python" -> <<"p", "y", "t", "h", "o", "n">>
    [] l = "C++" -> <<"c", "%", "2", "b", "%", "2", "b">>

Embeds(url, sub) ==
  \E i \in 1..(Len(url) - Len(sub) + 1) : SubSeq(url, i, i + Len(sub) - 1) = sub

RECURSIVE ConcatLinks(_)
ConcatLinks(groups) ==
  IF groups = <<>> THEN <<>>
  ELSE Head(groups).links \o ConcatLinks(Tail(groups))
AllLinks(table) ==
  IF table.t = "table" THEN ConcatLinks(table.groups) ELSE table.links

LinksDone == pc = "done" /\ fn = "getJobSearchLinks"
LowerCasedLinks == {"Working Nomads", "Wellfound (AngelList Talent)"}

\* C13 as the spec states it: every URL of the returned table embeds the
\* URL-encoded form of the language.
C13_EveryUrlEmbedsEncoded ==
  LinksDone =>
    \A i \in DOMAIN AllLinks(result.v) :
      Embeds(AllLinks(result.v)[i].url, ExpectedEncoded(args.language))

LinksEmbedLanguage ==
  LinksDone =>
    /\ result.kind = "return"
    /\ sent = <<>>
    /\ AllLinks(result.v) # <<>>
    /\ \A i \in DOMAIN AllLinks(result.v) :
         LET link == AllLinks(result.v)[i]
         IN IF link.name \in LowerCasedLinks
            THEN Embeds(link.url, ExpectedLowered(args.language))
            ELSE Embeds(link.url, ExpectedEncoded(args.language))

\* C13, amended: getJobSearchLinks returns without issuing a request; every
\* URL embeds the URL-encoded language, which the Working Nomads and Wellfound
\* URLs carry lower-cased; and a second call with the same language returns a
\* table equal to the first.
C13_LinksPureAndEncoded ==
  /\ []LinksEmbedLanguage
  /\ [][(LinksDone /\ LinksDone' /\ variant' = variant
           /\ args'.language = args.language) => result' = result]_vars

C13_Witness ==
  /\ LinksDone
  /\ variant = "A"
  /\ args.language = "C++"
  /\ \E i \in DOMAIN AllLinks(result.v) :
       /\ AllLinks(result.v)[i].name = "Working Nomads"
       /\ ~Embeds(AllLinks(result.v)[i].url, ExpectedEncoded("C++"))

(***************************************************************************)
(* C14: runCode.                                                           *)
(***************************************************************************)
RunCodeDone == pc = "done" /\ fn = "runCode"
Blank(cs) == \A i \in DOMAIN cs : cs[i] \in WS
\* inner is cs without its leading and trailing whitespace.
IsTrimOf(inner, cs) ==
  \E i, j \in DOMAIN cs :
    /\ i <= j
    /\ cs[i] \notin WS
    /\ cs[j] \notin WS
    /\ \A k \in 1..(i - 1) : cs[k] \in WS
    /\ \A k \in (j + 1)..Len(cs) : cs[k] \in WS
    /\ inner = SubSeq(cs, i, j)
NonEmptyString(v) ==
  \/ v.t = "str" /\ v.s # ""
  \/ v.t = "text" /\ v.cs # <<>>

\* C14: runCode never throws and always resolves with a non-empty string:
\* the fixed internal-error message when the model call throws, "[No output]"
\* when the response text is absent, empty or only whitespace, and the
\* trimmed response text otherwise.
C14_RunCodeAlwaysString ==
  RunCodeDone =>
    /\ result.kind = "return"
    /\ NonEmptyString(result.v)
    /\ outcome.kind = "throw" =>
         result.v = JStr("An internal error occurred while trying to run the code.")
    /\ (outcome.kind = "ok" /\ (~outcome.hasText \/ Blank(outcome.text))) =>
         result.v = JStr("[No output]")
    /\ (outcome.kind = "ok" /\ outcome.hasText /\ ~Blank(outcome.text)) =>
         /\ result.v.t = "text"
         /\ IsTrimOf(result.v.cs, outcome.text)

C14_Witness ==
  /\ RunCodeDone
  /\ outcome.kind = "ok"
  /\ outcome.hasText
  /\ outcome.text = <<" ", " ">>
  /\ result = Return(JStr("[No output]"))

(***************************************************************************)
(* C15: the cursor marker of getCodeCompletions.                           *)
(***************************************************************************)
CompletionsSent == pc # "idle" /\ fn = "getCodeCompletions"
\* The code-with-cursor text inside the prompt of the request.
SentCode == sent[1].contents[1].parts[1].text.f.codeWithCursor.cs
Without(cs, k) == SubSeq(cs, 1, k - 1) \o SubSeq(cs, k + 1, Len(cs))
MarkerAt(cs) == {k \in DOMAIN cs : cs[k] = "[CURSOR]"}

====
